---- MODULE Spec2Model ----
(***************************************************************************)
(* Account-balance consistency of my-finance-love: the balance triggers on *)
(* transactions and transfers (SQL) and the goal-contribution hooks        *)
(* (useGoals.ts), over the five tables accounts, transactions, transfers,  *)
(* financial_goals and goal_contributions.  Amounts are integers (cents of *)
(* the DECIMAL(15,2) columns).                                             *)
(***************************************************************************)
EXTENDS Integers, FiniteSets, Sequences, TLC

\* ------------------------------------------------------------------ bounds
NumAccounts == 2
MaxAmount   == 2
MaxInitial  == 2
MaxTarget   == 2
MaxTx       == 1
MaxTr       == 1
NumGoals    == 1
MaxContribs == 2
MaxSeqRows  == 2
MaxFaults   == 1
NumClients  == 2

AccountIds  == 1..NumAccounts
Amounts     == 1..MaxAmount
InitBalances == {0, MaxInitial}
Targets     == {MaxTarget}
TxIds       == 1..MaxTx
TrIds       == 1..MaxTr
GoalIds     == 1..NumGoals
ContribIds  == 1..MaxContribs
Clients     == 1..NumClients

VARIABLES
  accounts,       \* public.accounts:            id -> [initial_balance, current_balance]
  transactions,   \* public.transactions:        id -> [account_id, type, amount]
  transfers,      \* public.transfers:           id -> [from_account_id, to_account_id, amount]
  goals,          \* public.financial_goals:     id -> [target_amount, current_amount, status, is_completed]
  contributions,  \* public.goal_contributions:  id -> [goal_id, account_id, amount]
  client,         \* per client: the position and locals of its running mutationFn
  lastOp,         \* the last trigger-backed operation that completed
  faults,         \* the database calls that have failed so far
  event           \* the event just applied and the accounts table before it

vars == <<accounts, transactions, transfers, goals, contributions, client, lastOp, faults, event>>

\* ------------------------------------------------------------------ tables
EmptyTable == [i \in {} |-> 0]

\* INSERT ... : the table with one more row
InsertRow(tbl, id, row) == [i \in DOMAIN tbl \cup {id} |-> IF i = id THEN row ELSE tbl[i]]

\* UPDATE ... WHERE id = id : no row, no change
UpdateRow(tbl, id, row) == [i \in DOMAIN tbl |-> IF i = id THEN row ELSE tbl[i]]

\* DELETE ... WHERE id = id : no row, no change
DeleteRow(tbl, id) == [i \in DOMAIN tbl \ {id} |-> tbl[i]]

\* gen_random_uuid(): an id no row of the table has (ids being interchangeable,
\* the lowest unused one)
FreshIds(tbl, ids) ==
  LET unused == ids \ DOMAIN tbl IN {i \in unused : \A j \in unused : i <= j}

TransactionTypes == {"income", "expense"}

TransactionRows == [account_id : AccountIds, type : TransactionTypes, amount : Amounts]

TransferRows == [from_account_id : AccountIds, to_account_id : AccountIds, amount : Amounts]

\* ------------------------------------------------------------------- users
\* auth.users: the user of the sessions and another user
Users == {"U", "V"}

\* auth.uid(): the user every session of the model is signed in as
auth_uid == "U"

\* USING (auth.uid() = user_id): the rows of a table a statement of the session sees
Visible(tbl) == {i \in DOMAIN tbl : tbl[i].user_id = auth_uid}

\* ---------------------------------------------------------------- triggers
\* UPDATE public.accounts SET current_balance = current_balance + delta WHERE id = id
AdjustBalance(accts, id, delta) ==
  [a \in DOMAIN accts |->
     IF a = id THEN [accts[a] EXCEPT !.current_balance = @ + delta] ELSE accts[a]]

\* An INSERT branch whose UPDATE accounts has no WHERE id = NEW.account_id
ApplyTransaction_EveryAccount(accts, new) ==
  [a \in DOMAIN accts |->
     [accts[a] EXCEPT !.current_balance =
        IF new.type = "income" THEN @ + new.amount ELSE @ - new.amount]]

\* The INSERT branch: + amount for income, - amount otherwise
ApplyTransaction(accts, new) ==
  IF new.type = "income"
    THEN AdjustBalance(accts, new.account_id, new.amount)
    ELSE AdjustBalance(accts, new.account_id, 0 - new.amount)

\* The DELETE branch: - amount for income, + amount otherwise
ReverseTransaction(accts, old) ==
  IF old.type = "income"
    THEN AdjustBalance(accts, old.account_id, 0 - old.amount)
    ELSE AdjustBalance(accts, old.account_id, old.amount)

\* A trigger function that, on UPDATE, applies the new row without reverting the old
update_account_balance_on_transaction_NoRevert(accts, TG_OP, old, new) ==
  CASE TG_OP = "INSERT" -> ApplyTransaction(accts, new)
    [] TG_OP = "DELETE" -> ReverseTransaction(accts, old)
    [] TG_OP = "UPDATE" -> ApplyTransaction(accts, new)

\* public.update_account_balance_on_transaction(), the accounts table it leaves
update_account_balance_on_transaction(accts, TG_OP, old, new) ==
  CASE TG_OP = "INSERT" -> ApplyTransaction(accts, new)
    [] TG_OP = "DELETE" -> ReverseTransaction(accts, old)
    [] TG_OP = "UPDATE" -> ApplyTransaction(ReverseTransaction(accts, old), new)

\* An INSERT branch that debits the source and leaves the destination as it is
ApplyTransfer_DebitOnly(accts, new) ==
  AdjustBalance(accts, new.from_account_id, 0 - new.amount)

\* The INSERT branch: debit the source, credit the destination
ApplyTransfer(accts, new) ==
  AdjustBalance(AdjustBalance(accts, new.from_account_id, 0 - new.amount),
                new.to_account_id, new.amount)

\* A DELETE branch that debits the destination and leaves the source as it is
ReverseTransfer_DestinationOnly(accts, old) ==
  AdjustBalance(accts, old.to_account_id, 0 - old.amount)

\* The DELETE branch: credit the source, debit the destination
ReverseTransfer(accts, old) ==
  AdjustBalance(AdjustBalance(accts, old.from_account_id, old.amount),
                old.to_account_id, 0 - old.amount)

\* A trigger function that, on UPDATE, reverts the old transfer on the new row's accounts
update_account_balance_on_transfer_RevertOnNew(accts, TG_OP, old, new) ==
  CASE TG_OP = "INSERT" -> ApplyTransfer(accts, new)
    [] TG_OP = "DELETE" -> ReverseTransfer(accts, old)
    [] TG_OP = "UPDATE" ->
         ApplyTransfer(ReverseTransfer(accts, [new EXCEPT !.amount = old.amount]), new)

\* A trigger function whose UPDATE branch credits the new amount to the old destination
update_account_balance_on_transfer_CreditOld(accts, TG_OP, old, new) ==
  CASE TG_OP = "INSERT" -> ApplyTransfer(accts, new)
    [] TG_OP = "DELETE" -> ReverseTransfer(accts, old)
    [] TG_OP = "UPDATE" ->
         AdjustBalance(AdjustBalance(ReverseTransfer(accts, old),
                                     new.from_account_id, 0 - new.amount),
                       new.to_account_id, old.amount)

\* A trigger function whose UPDATE branch moves only the difference of the amounts,
\* between the new row's accounts
update_account_balance_on_transfer_AmountOnly(accts, TG_OP, old, new) ==
  CASE TG_OP = "INSERT" -> ApplyTransfer(accts, new)
    [] TG_OP = "DELETE" -> ReverseTransfer(accts, old)
    [] TG_OP = "UPDATE" ->
         ApplyTransfer(accts, [new EXCEPT !.amount = new.amount - old.amount])

\* public.update_account_balance_on_transfer(), the accounts table it leaves
update_account_balance_on_transfer(accts, TG_OP, old, new) ==
  CASE TG_OP = "INSERT" -> ApplyTransfer(accts, new)
    [] TG_OP = "DELETE" -> ReverseTransfer(accts, old)
    [] TG_OP = "UPDATE" -> ApplyTransfer(ReverseTransfer(accts, old), new)

\* ------------------------------------------------------ goal contributions
NoAccount == 0

Max(x, y) == IF x >= y THEN x ELSE y

\* A balance check with its operands swapped
InsufficientBalance_OrEqual(current_balance, amount) == current_balance <= amount

InsufficientBalance_Swapped(current_balance, amount) == amount < current_balance

\* The balance check: (accountData.current_balance || 0) < contribution.amount
InsufficientBalance(current_balance, amount) == current_balance < amount

\* UPDATE accounts SET current_balance = value WHERE id = id (the value the client computed)
SetBalance(accts, id, value) ==
  [a \in DOMAIN accts |->
     IF a = id /\ a \in Visible(accts)
       THEN [accts[a] EXCEPT !.current_balance = value]
       ELSE accts[a]]

\* The fields useAddContribution writes to the goal it read
GoalAfterContribution(goalData, amount) ==
  LET newAmount == goalData.current_amount + amount
      isCompleted == newAmount >= goalData.target_amount
  IN [current_amount |-> newAmount,
      status |-> IF isCompleted THEN "completed" ELSE "active",
      is_completed |-> isCompleted]

\* A removal that subtracts without the floor of Math.max(0, ...)
GoalAfterRemoval_NoFloor(goalData, amount) ==
  [current_amount |-> goalData.current_amount - amount,
   status |-> "active",
   is_completed |-> FALSE]

\* The fields useDeleteContribution writes to the goal it read
GoalAfterRemoval(goalData, amount) ==
  [current_amount |-> Max(0, goalData.current_amount - amount),
   status |-> "active",
   is_completed |-> FALSE]

\* UPDATE financial_goals SET current_amount, status, is_completed WHERE id = id
UpdateGoal(gs, id, fields) ==
  [g \in DOMAIN gs |->
     IF g = id /\ g \in Visible(gs)
       THEN [gs[g] EXCEPT !.current_amount = fields.current_amount,
                          !.status = fields.status,
                          !.is_completed = fields.is_completed]
       ELSE gs[g]]

\* ON DELETE CASCADE of goal_contributions.goal_id
CascadeGoal(cs, goal_id) ==
  [i \in {j \in DOMAIN cs : cs[j].goal_id # goal_id} |-> cs[i]]

\* ---------------------------------------------------------- SQL statements
\* A statement whose failure leaves the work done before the failure
RollbackTo_KeepWork(before, work) == work

\* What a failed statement leaves: its transaction is rolled back to the state before it
RollbackTo(before, work) == before

\* One INSERT / UPDATE / DELETE on a table with an AFTER ... FOR EACH ROW trigger:
\* the row change, then the trigger function (triggered: the accounts table it
\* leaves), inside the statement's transaction.  failAt names the part that raises
\* an error, if any.  The result is the committed [rows, accounts].
Statement(tbl, accts, TG_OP, id, new, triggered, failAt) ==
  LET before == [rows |-> tbl, accounts |-> accts]
      rowDone == [rows |-> CASE TG_OP = "INSERT" -> InsertRow(tbl, id, new)
                             [] TG_OP = "UPDATE" -> UpdateRow(tbl, id, new)
                             [] TG_OP = "DELETE" -> DeleteRow(tbl, id),
                  accounts |-> accts]
      triggerDone == [rowDone EXCEPT !.accounts = triggered]
  IN CASE failAt = "none"    -> triggerDone
       [] failAt = "row"     -> RollbackTo(before, before)
       [] failAt = "trigger" -> RollbackTo(before, rowDone)

FailPoints == {"none", "row", "trigger"}

\* What the hook's onSuccess / onError reports
Outcome(failAt, name) == IF failAt = "none" THEN name ELSE "statementFailed"

\* ------------------------------------------------------------ initial state
NoGoalData == [current_amount |-> 0, target_amount |-> 0]

NoSnapshot == <<>>

ClientIdle ==
  [pc |-> "idle", op |-> "none", goal_id |-> 0, account_id |-> NoAccount, amount |-> 0,
   contrib_id |-> 0, accountData |-> 0, goalData |-> NoGoalData, result |-> "none",
   pre |-> NoSnapshot]

\* No event is open to an immediate reversal
NoEvent == [kind |-> "none", client |-> 0, id |-> 0, accounts |-> <<>>, reversed |-> FALSE]

\* The event a create has just applied: its record and the accounts table before it
Applied(kind, c, id) ==
  [kind |-> kind, client |-> c, id |-> id, accounts |-> accounts, reversed |-> FALSE]

\* The delete of record id has completed: it reverses the event if that event created
\* the record and nothing has happened since
Reversing(kind, id, done) ==
  IF done /\ event.kind = kind /\ event.id = id /\ ~event.reversed
    THEN [event EXCEPT !.reversed = TRUE]
    ELSE NoEvent

Init ==
  /\ accounts \in [AccountIds -> {[user_id |-> auth_uid, type |-> "checking", initial_balance |-> b, current_balance |-> b] :
                                    b \in InitBalances}]
  /\ transactions = EmptyTable
  /\ transfers = EmptyTable
  /\ goals \in [GoalIds -> {[user_id |-> auth_uid, target_amount |-> t, current_amount |-> 0,
                             status |-> "active", is_completed |-> FALSE] : t \in Targets}]
  /\ contributions = EmptyTable
  /\ client = [c \in Clients |-> ClientIdle]
  /\ lastOp = "none"
  /\ faults = 0
  /\ event = NoEvent

\* ------------------------------------------------- transaction operations
\* useCreateTransaction: INSERT INTO transactions, with on_transaction_change
CreateTransaction(id, row, failAt) ==
  /\ id \in FreshIds(transactions, TxIds)
  /\ row.account_id \in DOMAIN accounts
  /\ LET done == Statement(transactions, accounts, "INSERT", id, row,
                           update_account_balance_on_transaction(accounts, "INSERT", row, row), failAt)
     IN /\ transactions' = done.rows
        /\ accounts' = done.accounts
  /\ lastOp' = Outcome(failAt, "createTransaction")
  /\ UNCHANGED <<transfers, goals, contributions, client, faults>>
  /\ event' = IF failAt = "none" THEN Applied("transaction", 0, id) ELSE NoEvent

\* useUpdateTransaction: UPDATE transactions ... WHERE id, with on_transaction_change
UpdateTransaction(id, row, failAt) ==
  /\ id \in DOMAIN transactions
  /\ row.account_id \in DOMAIN accounts
  /\ LET done == Statement(transactions, accounts, "UPDATE", id, row,
                           update_account_balance_on_transaction(accounts, "UPDATE", transactions[id], row), failAt)
     IN /\ transactions' = done.rows
        /\ accounts' = done.accounts
  /\ lastOp' = Outcome(failAt, "updateTransaction")
  /\ UNCHANGED <<transfers, goals, contributions, client, faults>>
  /\ event' = NoEvent

\* useDeleteTransaction: DELETE FROM transactions WHERE id, with on_transaction_change
DeleteTransaction(id, failAt) ==
  /\ id \in DOMAIN transactions
  /\ LET done == Statement(transactions, accounts, "DELETE", id, transactions[id],
                           update_account_balance_on_transaction(accounts, "DELETE", transactions[id], transactions[id]), failAt)
     IN /\ transactions' = done.rows
        /\ accounts' = done.accounts
  /\ lastOp' = Outcome(failAt, "deleteTransaction")
  /\ UNCHANGED <<transfers, goals, contributions, client, faults>>
  /\ event' = Reversing("transaction", id, failAt = "none")

\* The transaction hooks, their statements succeeding or failing
NextTx ==
  \/ \E id \in TxIds, row \in TransactionRows, f \in FailPoints : CreateTransaction(id, row, f)
  \/ \E id \in TxIds, row \in TransactionRows, f \in FailPoints : UpdateTransaction(id, row, f)
  \/ \E id \in TxIds, f \in FailPoints : DeleteTransaction(id, f)

SpecTx == Init /\ [][NextTx]_vars

\* ---------------------------------------------------- transfer operations
\* useCreateTransfer: INSERT INTO transfers, with on_transfer_change
CreateTransfer(id, row, failAt) ==
  /\ id \in FreshIds(transfers, TrIds)
  /\ {row.from_account_id, row.to_account_id} \subseteq DOMAIN accounts
  /\ LET done == Statement(transfers, accounts, "INSERT", id, row,
                           update_account_balance_on_transfer(accounts, "INSERT", row, row), failAt)
     IN /\ transfers' = done.rows
        /\ accounts' = done.accounts
  /\ lastOp' = Outcome(failAt, "createTransfer")
  /\ UNCHANGED <<transactions, goals, contributions, client, faults>>
  /\ event' = IF failAt = "none" THEN Applied("transfer", 0, id) ELSE NoEvent

\* useUpdateTransfer: UPDATE transfers ... WHERE id, with on_transfer_change
UpdateTransfer(id, row, failAt) ==
  /\ id \in DOMAIN transfers
  /\ {row.from_account_id, row.to_account_id} \subseteq DOMAIN accounts
  /\ LET done == Statement(transfers, accounts, "UPDATE", id, row,
                           update_account_balance_on_transfer(accounts, "UPDATE", transfers[id], row), failAt)
     IN /\ transfers' = done.rows
        /\ accounts' = done.accounts
  /\ lastOp' = Outcome(failAt, "updateTransfer")
  /\ UNCHANGED <<transactions, goals, contributions, client, faults>>
  /\ event' = NoEvent

\* useDeleteTransfer: DELETE FROM transfers WHERE id, with on_transfer_change
DeleteTransfer(id, failAt) ==
  /\ id \in DOMAIN transfers
  /\ LET done == Statement(transfers, accounts, "DELETE", id, transfers[id],
                           update_account_balance_on_transfer(accounts, "DELETE", transfers[id], transfers[id]), failAt)
     IN /\ transfers' = done.rows
        /\ accounts' = done.accounts
  /\ lastOp' = Outcome(failAt, "deleteTransfer")
  /\ UNCHANGED <<transactions, goals, contributions, client, faults>>
  /\ event' = Reversing("transfer", id, failAt = "none")

\* The transfer hooks, their statements succeeding or failing
NextTr ==
  \/ \E id \in TrIds, row \in TransferRows, f \in FailPoints : CreateTransfer(id, row, f)
  \/ \E id \in TrIds, row \in TransferRows, f \in FailPoints : UpdateTransfer(id, row, f)
  \/ \E id \in TrIds, f \in FailPoints : DeleteTransfer(id, f)

SpecTr == Init /\ [][NextTr]_vars

\* The transfer hooks on accounts opened with 100 or 500 and transfers of 50 or 200
ScenarioBalances == {100, 500}

ScenarioAmounts == {50, 200}

ScenarioRows ==
  [from_account_id : AccountIds, to_account_id : AccountIds, amount : ScenarioAmounts]

InitScenario ==
  /\ accounts \in [AccountIds -> {[user_id |-> auth_uid, type |-> "checking", initial_balance |-> b, current_balance |-> b] :
                                    b \in ScenarioBalances}]
  /\ transactions = EmptyTable
  /\ transfers = EmptyTable
  /\ goals \in [GoalIds -> {[user_id |-> auth_uid, target_amount |-> t, current_amount |-> 0,
                             status |-> "active", is_completed |-> FALSE] : t \in Targets}]
  /\ contributions = EmptyTable
  /\ client = [c \in Clients |-> ClientIdle]
  /\ lastOp = "none"
  /\ faults = 0
  /\ event = NoEvent

NextScenario ==
  \/ \E id \in TrIds, row \in ScenarioRows, f \in FailPoints : CreateTransfer(id, row, f)
  \/ \E id \in TrIds, row \in ScenarioRows, f \in FailPoints : UpdateTransfer(id, row, f)
  \/ \E id \in TrIds, f \in FailPoints : DeleteTransfer(id, f)

SpecScenario == InitScenario /\ [][NextScenario]_vars

\* ------------------------------------------------------ the transfer dialogs
\* The amounts a form field can hold: a negative one, zero and the positive ones
FormAmounts == (0 - 1)..MaxAmount

TransferFormValues ==
  [from_account_id : AccountIds, to_account_id : AccountIds, amount : FormAmounts]

\* A transfer schema without its refinement
transferSchema_NoRefine(values) ==
  IF values.amount > 0 THEN {} ELSE {"amount"}

\* transferSchema: the paths of the issues zod reports for the form values
\* (amount positive; from_account_id !== to_account_id, reported on to_account_id)
transferSchema(values) ==
  (IF values.amount > 0 THEN {} ELSE {"amount"})
    \cup (IF values.from_account_id # values.to_account_id THEN {} ELSE {"to_account_id"})

\* What the form shows for the issues
FormErrors(issues) ==
  CASE issues = {"amount"} -> "validationError:amount"
    [] issues = {"to_account_id"} -> "validationError:to_account_id"
    [] issues = {"amount", "to_account_id"} -> "validationError:amount,to_account_id"
    [] issues = {"account_id"} -> "validationError:account_id"
    [] issues = {"amount", "account_id"} -> "validationError:amount,account_id"

\* zodResolver found issues: handleSubmit does not call onSubmit, nothing is sent
FormRejected(issues) ==
  /\ lastOp' = FormErrors(issues)
  /\ UNCHANGED <<accounts, transactions, transfers, goals, contributions, client, faults>>
  /\ UNCHANGED event

\* TransferDialog: handleSubmit(onSubmit) -> createTransfer.mutateAsync(values)
TransferDialog_onSubmit(id, values, failAt) ==
  IF transferSchema(values) = {}
    THEN CreateTransfer(id, values, failAt)
    ELSE FormRejected(transferSchema(values))

\* EditTransferDialog on transfer id: handleSubmit(onSubmit) -> updateTransfer.mutateAsync
EditTransferDialog_onSubmit(id, values, failAt) ==
  /\ id \in DOMAIN transfers
  /\ IF transferSchema(values) = {}
       THEN UpdateTransfer(id, values, failAt)
       ELSE FormRejected(transferSchema(values))

\* Transfers created and edited through the dialogs, one transfer at a time
NextTrForm ==
  \/ \E id \in TrIds, values \in TransferFormValues, f \in FailPoints :
       transfers = EmptyTable /\ TransferDialog_onSubmit(id, values, f)
  \/ \E id \in TrIds, values \in TransferFormValues, f \in FailPoints :
       EditTransferDialog_onSubmit(id, values, f)
  \/ \E id \in TrIds, f \in FailPoints : DeleteTransfer(id, f)

SpecTrForm == Init /\ [][NextTrForm]_vars

\* Transactions and transfers whose statements may fail, on a ledger that holds
\* records of one kind at a time
LedgerRows == Cardinality(DOMAIN transactions) + Cardinality(DOMAIN transfers)

NextStmt ==
  \/ \E id \in TxIds, row \in TransactionRows, f \in FailPoints :
       transfers = EmptyTable /\ CreateTransaction(id, row, f)
  \/ \E id \in TxIds, row \in TransactionRows, f \in FailPoints : UpdateTransaction(id, row, f)
  \/ \E id \in TxIds, f \in FailPoints : DeleteTransaction(id, f)
  \/ \E id \in TrIds, row \in TransferRows, f \in FailPoints :
       transactions = EmptyTable /\ CreateTransfer(id, row, f)
  \/ \E id \in TrIds, row \in TransferRows, f \in FailPoints : UpdateTransfer(id, row, f)
  \/ \E id \in TrIds, f \in FailPoints : DeleteTransfer(id, f)

SpecStmt == Init /\ [][NextStmt]_vars

\* ------------------------------------------------ useAddContribution steps
Snapshot ==
  [accounts |-> accounts, goals |-> goals, contributions |-> contributions, faults |-> faults]

\* The contribution inserts still to come from running mutations
PendingInserts ==
  Cardinality({c \in Clients : client[c].pc \in {"add_read_account", "add_insert"}})

\* A database call fails (a network or database error) at most MaxFaults times
MayFail(ok) == ok \/ faults < MaxFaults

CallOutcome(ok) == IF ok THEN faults ELSE faults + 1

\* throw: the mutation ends in onError
Throw(c, reason) == [client EXCEPT ![c].pc = "done", ![c].result = reason]

\* Every other client is idle: this client's operation runs alone
Alone(c) == \A d \in Clients \ {c} : client[d].pc = "idle"

AllIdle == \A c \in Clients : client[c].pc = "idle"

\* No operation is running and c is the client that runs the next one (clients being
\* interchangeable, the first)
Solo(c) == AllIdle /\ \A d \in Clients : c <= d

\* addContribution.mutateAsync({goal_id, account_id, amount}) with any ids
addContribution_mutateAsync(c, g, a, amt) ==
  /\ client[c].pc = "idle"
  /\ Cardinality(DOMAIN contributions) + PendingInserts < MaxContribs
  /\ client' = [client EXCEPT ![c] =
       [ClientIdle EXCEPT !.pc = "add_read_account", !.op = "add", !.goal_id = g,
                          !.account_id = a, !.amount = amt, !.pre = Snapshot]]
  /\ UNCHANGED <<accounts, transactions, transfers, goals, contributions, lastOp, faults>>
  /\ event' = Applied("contribution", c, 0)

\* ContributionDialog.onSubmit: addContribution.mutateAsync({goal_id, account_id, amount})
\* on a goal and an account that exist
StartAdd(c, g, a, amt) ==
  /\ g \in DOMAIN goals
  /\ a \in DOMAIN accounts
  /\ addContribution_mutateAsync(c, g, a, amt)

\* select current_balance from accounts, then the insufficient-balance check
AddReadAccount(c, ok) ==
  /\ MayFail(ok)
  /\ client[c].pc = "add_read_account"
  /\ client' =
       IF ~ok \/ client[c].account_id \notin Visible(accounts)
         THEN Throw(c, "error")
       ELSE IF InsufficientBalance(accounts[client[c].account_id].current_balance, client[c].amount)
         THEN [Throw(c, "insufficient") EXCEPT
                 ![c].accountData = accounts[client[c].account_id].current_balance]
       ELSE [client EXCEPT ![c].pc = "add_insert",
                           ![c].accountData = accounts[client[c].account_id].current_balance]
  /\ faults' = CallOutcome(ok)
  /\ UNCHANGED <<accounts, transactions, transfers, goals, contributions, lastOp>>
  /\ event' = IF client'[c].pc = "done" THEN NoEvent ELSE event

\* insert into goal_contributions (goal_id and account_id are foreign keys)
AddInsert(c, ok, id) ==
  /\ MayFail(ok)
  /\ client[c].pc = "add_insert"
  /\ id \in FreshIds(contributions, ContribIds)
  /\ IF ok /\ client[c].goal_id \in DOMAIN goals /\ client[c].account_id \in DOMAIN accounts
       THEN /\ contributions' = InsertRow(contributions, id,
                 [goal_id |-> client[c].goal_id, account_id |-> client[c].account_id,
                  amount |-> client[c].amount])
            /\ client' = [client EXCEPT ![c].pc = "add_deduct", ![c].contrib_id = id]
       ELSE /\ client' = Throw(c, "error")
            /\ UNCHANGED contributions
  /\ faults' = CallOutcome(ok)
  /\ UNCHANGED <<accounts, transactions, transfers, goals, lastOp>>
  /\ event' = IF client'[c].pc = "done" THEN NoEvent
               ELSE IF event.client = c THEN [event EXCEPT !.id = id] ELSE event

\* update accounts set current_balance = accountData.current_balance - amount
AddDeduct(c, ok) ==
  /\ MayFail(ok)
  /\ client[c].pc = "add_deduct"
  /\ IF ok
       THEN /\ accounts' = SetBalance(accounts, client[c].account_id,
                                      client[c].accountData - client[c].amount)
            /\ client' = [client EXCEPT ![c].pc = "add_read_goal"]
       ELSE /\ client' = Throw(c, "error")
            /\ UNCHANGED accounts
  /\ faults' = CallOutcome(ok)
  /\ UNCHANGED <<transactions, transfers, goals, contributions, lastOp>>
  /\ event' = IF client'[c].pc = "done" THEN NoEvent ELSE event

\* select current_amount, target_amount from financial_goals
AddReadGoal(c, ok) ==
  /\ MayFail(ok)
  /\ client[c].pc = "add_read_goal"
  /\ client' =
       IF ok /\ client[c].goal_id \in Visible(goals)
         THEN [client EXCEPT ![c].pc = "add_update_goal",
                 ![c].goalData =
                    [current_amount |-> goals[client[c].goal_id].current_amount,
                     target_amount |-> goals[client[c].goal_id].target_amount]]
         ELSE Throw(c, "error")
  /\ faults' = CallOutcome(ok)
  /\ UNCHANGED <<accounts, transactions, transfers, goals, contributions, lastOp>>
  /\ event' = IF client'[c].pc = "done" THEN NoEvent ELSE event

\* update financial_goals: its error is not read, the mutation returns contribData
AddUpdateGoal(c, ok) ==
  /\ MayFail(ok)
  /\ client[c].pc = "add_update_goal"
  /\ goals' = IF ok
                THEN UpdateGoal(goals, client[c].goal_id,
                                GoalAfterContribution(client[c].goalData, client[c].amount))
                ELSE goals
  /\ client' = [client EXCEPT ![c].pc = "done", ![c].result = "ok"]
  /\ faults' = CallOutcome(ok)
  /\ UNCHANGED <<accounts, transactions, transfers, contributions, lastOp>>
  /\ UNCHANGED event

\* --------------------------------------------- useDeleteContribution steps
\* handleDeleteContribution(id, amount, accountId) on a listed contribution
StartRemove(c, id) ==
  /\ client[c].pc = "idle"
  /\ id \in DOMAIN contributions
  /\ client' = [client EXCEPT ![c] =
       [ClientIdle EXCEPT
          !.pc = IF contributions[id].account_id # NoAccount
                   THEN "rm_read_account" ELSE "rm_delete",
          !.op = "remove", !.contrib_id = id, !.goal_id = contributions[id].goal_id,
          !.account_id = contributions[id].account_id,
          !.amount = contributions[id].amount, !.pre = Snapshot]]
  /\ UNCHANGED <<accounts, transactions, transfers, goals, contributions, lastOp, faults>>
  /\ event' = IF event.kind = "contribution" /\ event.id = id /\ ~event.reversed
                 THEN event ELSE NoEvent

\* handleDeleteContribution(id, amount, accountId) in a dialog of session c that
\* still lists the contribution the removal of session d has deleted
StartRemoveListed(c, d) ==
  /\ c # d
  /\ client[c].pc = "idle"
  /\ client[d].pc = "done" /\ client[d].op = "remove" /\ client[d].result = "ok"
  /\ client[d].contrib_id \notin DOMAIN contributions
  /\ client' = [client EXCEPT ![c] =
       [ClientIdle EXCEPT
          !.pc = IF client[d].account_id # NoAccount THEN "rm_read_account" ELSE "rm_delete",
          !.op = "remove", !.contrib_id = client[d].contrib_id,
          !.goal_id = client[d].goal_id, !.account_id = client[d].account_id,
          !.amount = client[d].amount, !.pre = Snapshot]]
  /\ UNCHANGED <<accounts, transactions, transfers, goals, contributions, lastOp, faults>>
  /\ event' = NoEvent

\* select current_balance from accounts
RemoveReadAccount(c, ok) ==
  /\ MayFail(ok)
  /\ client[c].pc = "rm_read_account"
  /\ client' =
       IF ok /\ client[c].account_id \in Visible(accounts)
         THEN [client EXCEPT ![c].pc = "rm_restore",
                 ![c].accountData = accounts[client[c].account_id].current_balance]
         ELSE Throw(c, "error")
  /\ faults' = CallOutcome(ok)
  /\ UNCHANGED <<accounts, transactions, transfers, goals, contributions, lastOp>>
  /\ event' = IF client'[c].pc = "done" THEN NoEvent ELSE event

\* update accounts set current_balance = accountData.current_balance + amount
RemoveRestore(c, ok) ==
  /\ MayFail(ok)
  /\ client[c].pc = "rm_restore"
  /\ IF ok
       THEN /\ accounts' = SetBalance(accounts, client[c].account_id,
                                      client[c].accountData + client[c].amount)
            /\ client' = [client EXCEPT ![c].pc = "rm_delete"]
       ELSE /\ client' = Throw(c, "error")
            /\ UNCHANGED accounts
  /\ faults' = CallOutcome(ok)
  /\ UNCHANGED <<transactions, transfers, goals, contributions, lastOp>>
  /\ event' = IF client'[c].pc = "done" THEN NoEvent ELSE event

\* delete from goal_contributions where id
RemoveDelete(c, ok) ==
  /\ MayFail(ok)
  /\ client[c].pc = "rm_delete"
  /\ IF ok
       THEN /\ contributions' = DeleteRow(contributions, client[c].contrib_id)
            /\ client' = [client EXCEPT ![c].pc = "rm_read_goal"]
       ELSE /\ client' = Throw(c, "error")
            /\ UNCHANGED contributions
  /\ faults' = CallOutcome(ok)
  /\ UNCHANGED <<accounts, transactions, transfers, goals, lastOp>>
  /\ event' = IF client'[c].pc = "done" THEN NoEvent ELSE event

\* select current_amount, target_amount from financial_goals
RemoveReadGoal(c, ok) ==
  /\ MayFail(ok)
  /\ client[c].pc = "rm_read_goal"
  /\ client' =
       IF ok /\ client[c].goal_id \in Visible(goals)
         THEN [client EXCEPT ![c].pc = "rm_update_goal",
                 ![c].goalData =
                    [current_amount |-> goals[client[c].goal_id].current_amount,
                     target_amount |-> goals[client[c].goal_id].target_amount]]
         ELSE Throw(c, "error")
  /\ faults' = CallOutcome(ok)
  /\ UNCHANGED <<accounts, transactions, transfers, goals, contributions, lastOp>>
  /\ event' = IF client'[c].pc = "done" THEN NoEvent ELSE event

\* update financial_goals: its error is not read, the mutation returns
RemoveUpdateGoal(c, ok) ==
  /\ MayFail(ok)
  /\ client[c].pc = "rm_update_goal"
  /\ goals' = IF ok
                THEN UpdateGoal(goals, client[c].goal_id,
                                GoalAfterRemoval(client[c].goalData, client[c].amount))
                ELSE goals
  /\ client' = [client EXCEPT ![c].pc = "done", ![c].result = "ok"]
  /\ faults' = CallOutcome(ok)
  /\ UNCHANGED <<accounts, transactions, transfers, contributions, lastOp>>
  /\ event' = Reversing("contribution", client[c].contrib_id, TRUE)

\* onSuccess / onError have run: the client is ready for its next operation
Finish(c) ==
  /\ client[c].pc = "done"
  /\ client' = [client EXCEPT ![c] = ClientIdle]
  /\ UNCHANGED <<accounts, transactions, transfers, goals, contributions, lastOp, faults>>
  /\ UNCHANGED event

\* A goal deletion that credits each contribution back to its account
DeleteGoal_Refund(g) ==
  /\ g \in Visible(goals)
  /\ goals' = DeleteRow(goals, g)
  /\ contributions' = CascadeGoal(contributions, g)
  /\ accounts' = [a \in DOMAIN accounts |->
       [accounts[a] EXCEPT !.current_balance =
          @ + (LET RECURSIVE Refund(_)
                   Refund(S) ==
                     IF S = {} THEN 0
                     ELSE LET i == CHOOSE j \in S : TRUE
                          IN (IF contributions[i].goal_id = g /\ contributions[i].account_id = a
                                THEN contributions[i].amount ELSE 0) + Refund(S \ {i})
               IN Refund(DOMAIN contributions))]]
  /\ lastOp' = "deleteGoal"
  /\ UNCHANGED <<transactions, transfers, client, faults>>
  /\ event' = NoEvent

\* useDeleteGoal: DELETE FROM financial_goals WHERE id, cascading to its contributions
DeleteGoal(g) ==
  /\ g \in Visible(goals)
  /\ goals' = DeleteRow(goals, g)
  /\ contributions' = CascadeGoal(contributions, g)
  /\ lastOp' = "deleteGoal"
  /\ UNCHANGED <<accounts, transactions, transfers, client, faults>>
  /\ event' = NoEvent

\* -------------------------------------------------------- account dialogs
\* CREATE TYPE public.account_type AS ENUM
AccountTypes == {"checking", "savings", "wallet", "credit_card"}

\* The values of AccountDialog's form: accountSchema (name, bank_name and color
\* are free texts, written as type is)
AccountFormValues == [type : AccountTypes, initial_balance : InitBalances]

\* The values of EditAccountDialog's form: its accountSchema has no balance field
EditAccountFormValues == [type : AccountTypes]

\* An account row left with the DEFAULT 0 of current_balance
NewAccount_DefaultBalance(values) ==
  [user_id |-> auth_uid, type |-> values.type,
   initial_balance |-> values.initial_balance, current_balance |-> 0]

\* AccountDialog.onSubmit: {..., initial_balance: values.initial_balance,
\* current_balance: values.initial_balance}, and useCreateAccount's user_id
NewAccount(values) ==
  [user_id |-> auth_uid, type |-> values.type,
   initial_balance |-> values.initial_balance, current_balance |-> values.initial_balance]

\* useCreateAccount: insert into accounts
useCreateAccount(id, account) ==
  /\ id \in FreshIds(accounts, AccountIds)
  /\ accounts' = InsertRow(accounts, id, account)
  /\ lastOp' = "createAccount"
  /\ event' = NoEvent
  /\ UNCHANGED <<transactions, transfers, goals, contributions, client, faults>>

\* AccountDialog: handleSubmit(onSubmit) -> createAccount.mutateAsync
AccountDialog_onSubmit(id, values) == useCreateAccount(id, NewAccount(values))

\* useUpdateAccount: update accounts set (the fields given) where id
useUpdateAccount(id, account) ==
  /\ id \in Visible(accounts)
  /\ accounts' = [accounts EXCEPT ![id] =
       [k \in DOMAIN accounts[id] |->
          IF k \in DOMAIN account THEN account[k] ELSE accounts[id][k]]]
  /\ lastOp' = "updateAccount"
  /\ event' = NoEvent
  /\ UNCHANGED <<transactions, transfers, goals, contributions, client, faults>>

\* EditAccountDialog: handleSubmit(onSubmit) -> updateAccount.mutateAsync({id, ...values})
EditAccountDialog_onSubmit(id, values) == useUpdateAccount(id, values)

\* -------------------------------------------------------- account deletion
\* REFERENCES public.accounts(id) ON DELETE CASCADE of transactions.account_id
CascadeTransactions(txs, a) ==
  {i \in DOMAIN txs : txs[i].account_id = a}

\* ... of transfers.from_account_id and transfers.to_account_id
CascadeTransfers(trs, a) ==
  {i \in DOMAIN trs : trs[i].from_account_id = a \/ trs[i].to_account_id = a}

\* goal_contributions.account_id REFERENCES public.accounts(id), with no ON DELETE
\* action: the rows that still reference the account
ReferencingContributions(cs, a) ==
  {i \in DOMAIN cs : cs[i].account_id = a}

RECURSIVE TransactionsDeleted(_, _, _)
\* on_transaction_change, FOR EACH ROW of the cascaded delete
TransactionsDeleted(accts, txs, ids) ==
  IF ids = {} THEN accts
  ELSE LET i == CHOOSE i \in ids : TRUE
       IN TransactionsDeleted(
            update_account_balance_on_transaction(accts, "DELETE", txs[i], txs[i]),
            txs, ids \ {i})

RECURSIVE TransfersDeleted(_, _, _)
\* on_transfer_change, FOR EACH ROW of the cascaded delete
TransfersDeleted(accts, trs, ids) ==
  IF ids = {} THEN accts
  ELSE LET i == CHOOSE i \in ids : TRUE
       IN TransfersDeleted(
            update_account_balance_on_transfer(accts, "DELETE", trs[i], trs[i]),
            trs, ids \ {i})

\* useDeleteAccount: DELETE FROM accounts WHERE id. The statement fails as a whole
\* while a goal contribution references the account; otherwise the account's
\* transactions and transfers are deleted with it, their triggers running
DeleteAccount(a) ==
  /\ a \in Visible(accounts)
  /\ IF ReferencingContributions(contributions, a) # {}
       THEN /\ lastOp' = "deleteAccount:error"
            /\ UNCHANGED <<accounts, transactions, transfers>>
       ELSE /\ lastOp' = "deleteAccount"
            /\ accounts' =
                 TransfersDeleted(
                   TransactionsDeleted(DeleteRow(accounts, a), transactions,
                                       CascadeTransactions(transactions, a)),
                   transfers, CascadeTransfers(transfers, a))
            /\ transactions' =
                 [i \in DOMAIN transactions \ CascadeTransactions(transactions, a) |->
                    transactions[i]]
            /\ transfers' =
                 [i \in DOMAIN transfers \ CascadeTransfers(transfers, a) |-> transfers[i]]
  /\ event' = NoEvent
  /\ UNCHANGED <<goals, contributions, client, faults>>

\* ------------------------------------------------------------ goal dialogs
\* status TEXT CHECK (status IN ('active', 'completed', 'paused'))
GoalStatuses == {"active", "completed", "paused"}

\* The status field of a GoalInsert / GoalUpdate that does not give one
NoStatus == "undefined"

\* useCreateGoal: insert {...goal, user_id, status: goal.status || "active",
\* current_amount: goal.current_amount || 0}; is_completed takes its DEFAULT false
useCreateGoal(id, goal) ==
  /\ id \in FreshIds(goals, GoalIds)
  /\ goals' = InsertRow(goals, id,
       [user_id |-> auth_uid, target_amount |-> goal.target_amount, current_amount |-> 0,
        status |-> IF goal.status = NoStatus THEN "active" ELSE goal.status,
        is_completed |-> FALSE])
  /\ lastOp' = "createGoal"
  /\ event' = NoEvent
  /\ UNCHANGED <<accounts, transactions, transfers, contributions, client, faults>>

\* GoalDialog.onSubmit: createGoal.mutateAsync({..., target_amount, status: "active"})
GoalDialog_onSubmit(id, values) ==
  useCreateGoal(id, [target_amount |-> values.target_amount, status |-> "active"])

\* An update that leaves is_completed as it is
is_completed_Kept(status, old) == old

\* useUpdateGoal: is_completed is true for status completed, false for any other
\* status given, and not written when no status is given
is_completed_OnUpdate(status, old) ==
  IF status = "completed" THEN TRUE ELSE IF status # NoStatus THEN FALSE ELSE old

\* useUpdateGoal: update financial_goals set {...goal, is_completed} where id
useUpdateGoal(id, goal) ==
  /\ id \in Visible(goals)
  /\ goals' = [goals EXCEPT ![id] =
       [@ EXCEPT !.target_amount = goal.target_amount,
                 !.status = IF goal.status = NoStatus THEN @ ELSE goal.status,
                 !.is_completed = is_completed_OnUpdate(goal.status, @)]]
  /\ lastOp' = "updateGoal"
  /\ event' = NoEvent
  /\ UNCHANGED <<accounts, transactions, transfers, contributions, client, faults>>

\* The values of the goal forms: goalSchema
GoalFormValues == [target_amount : Targets]

EditGoalFormValues == [target_amount : Targets, status : GoalStatuses]

\* EditGoalDialog.onSubmit: updateGoal.mutateAsync({id, ..., target_amount, status})
EditGoalDialog_onSubmit(id, values) == useUpdateGoal(id, values)

\* The database calls of useAddContribution, each succeeding (ok) or failing
AddStep(c, ok) ==
  \/ AddReadAccount(c, ok)
  \/ \E id \in ContribIds : AddInsert(c, ok, id)
  \/ AddDeduct(c, ok)
  \/ AddReadGoal(c, ok)
  \/ AddUpdateGoal(c, ok)

\* The database calls of useDeleteContribution, each succeeding (ok) or failing
RemoveStep(c, ok) ==
  \/ RemoveReadAccount(c, ok)
  \/ RemoveRestore(c, ok)
  \/ RemoveDelete(c, ok)
  \/ RemoveReadGoal(c, ok)
  \/ RemoveUpdateGoal(c, ok)

\* Contribution operations one at a time, any database call of theirs may fail
NextFault ==
  \/ \E c \in Clients, g \in GoalIds, a \in AccountIds, amt \in Amounts :
       Alone(c) /\ StartAdd(c, g, a, amt)
  \/ \E c \in Clients, id \in ContribIds : Alone(c) /\ StartRemove(c, id)
  \/ \E c \in Clients, ok \in BOOLEAN : AddStep(c, ok)
  \/ \E c \in Clients, ok \in BOOLEAN : RemoveStep(c, ok)
  \/ \E c \in Clients : Finish(c)

SpecFault == Init /\ [][NextFault]_vars

\* addContribution operations one at a time, any database call of theirs may fail
NextAdd ==
  \/ \E c \in Clients, g \in GoalIds, a \in AccountIds, amt \in Amounts :
       Solo(c) /\ StartAdd(c, g, a, amt)
  \/ \E c \in Clients, ok \in BOOLEAN : AddStep(c, ok)
  \/ \E c \in Clients : Finish(c)

SpecAdd == Init /\ [][NextAdd]_vars

\* Every operation of the ledger, one at a time and run to completion, no call failing,
\* on a ledger of at most MaxSeqRows records
SeqRows == LedgerRows + Cardinality(DOMAIN contributions)


NextSeq ==
  \/ \E id \in TxIds, row \in TransactionRows :
       AllIdle /\ SeqRows < MaxSeqRows /\ CreateTransaction(id, row, "none")
  \/ \E id \in TxIds, row \in TransactionRows : AllIdle /\ UpdateTransaction(id, row, "none")
  \/ \E id \in TxIds : AllIdle /\ DeleteTransaction(id, "none")
  \/ \E id \in TrIds, row \in TransferRows :
       AllIdle /\ SeqRows < MaxSeqRows /\ CreateTransfer(id, row, "none")
  \/ \E id \in TrIds, row \in TransferRows : AllIdle /\ UpdateTransfer(id, row, "none")
  \/ \E id \in TrIds : AllIdle /\ DeleteTransfer(id, "none")
  \/ \E c \in Clients, g \in GoalIds, a \in AccountIds, amt \in Amounts :
       AllIdle /\ SeqRows < MaxSeqRows /\ StartAdd(c, g, a, amt)
  \/ \E c \in Clients, id \in ContribIds : AllIdle /\ StartRemove(c, id)
  \/ \E c \in Clients : AddStep(c, TRUE)
  \/ \E c \in Clients : RemoveStep(c, TRUE)
  \/ \E c \in Clients : Finish(c)
  \/ \E g \in GoalIds : AllIdle /\ DeleteGoal(g)

SpecSeq == Init /\ [][NextSeq]_vars

\* Events and their reversals, one at a time and run to completion, no call failing:
\* records of one kind at a time, contributions on a ledger that has held no
\* transaction or transfer
NextUndo ==
  \/ \E id \in TxIds, row \in TransactionRows :
       /\ AllIdle /\ transfers = EmptyTable /\ contributions = EmptyTable
       /\ CreateTransaction(id, row, "none")
  \/ \E id \in TxIds : AllIdle /\ DeleteTransaction(id, "none")
  \/ \E id \in TrIds, row \in TransferRows :
       /\ AllIdle /\ transactions = EmptyTable /\ contributions = EmptyTable
       /\ CreateTransfer(id, row, "none")
  \/ \E id \in TrIds : AllIdle /\ DeleteTransfer(id, "none")
  \/ \E c \in Clients, g \in GoalIds, a \in AccountIds, amt \in Amounts :
       Solo(c) /\ LedgerRows = 0 /\ lastOp = "none" /\ StartAdd(c, g, a, amt)
  \/ \E c \in Clients, id \in ContribIds : Solo(c) /\ StartRemove(c, id)
  \/ \E c \in Clients : AddStep(c, TRUE)
  \/ \E c \in Clients : RemoveStep(c, TRUE)
  \/ \E c \in Clients : Finish(c)

SpecUndo == Init /\ [][NextUndo]_vars

\* The operations of user U on a database that also holds accounts and goals of
\* user V: every hook called with any existing account or goal, one operation at a
\* time, no call failing
InitUsers ==
  /\ accounts \in [AccountIds -> {[user_id |-> u, type |-> "checking", initial_balance |-> b, current_balance |-> b] :
                                    u \in Users, b \in InitBalances}]
  /\ transactions = EmptyTable
  /\ transfers = EmptyTable
  /\ goals \in [GoalIds -> {[user_id |-> u, target_amount |-> t, current_amount |-> 0,
                             status |-> "active", is_completed |-> FALSE] :
                              u \in Users, t \in Targets}]
  /\ contributions = EmptyTable
  /\ client = [c \in Clients |-> ClientIdle]
  /\ lastOp = "none"
  /\ faults = 0
  /\ event = NoEvent

NextUsers ==
  \/ \E id \in TxIds, row \in TransactionRows :
       AllIdle /\ SeqRows < MaxSeqRows /\ CreateTransaction(id, row, "none")
  \/ \E id \in TxIds, row \in TransactionRows : AllIdle /\ UpdateTransaction(id, row, "none")
  \/ \E id \in TxIds : AllIdle /\ DeleteTransaction(id, "none")
  \/ \E id \in TrIds, row \in TransferRows :
       AllIdle /\ SeqRows < MaxSeqRows /\ CreateTransfer(id, row, "none")
  \/ \E id \in TrIds, row \in TransferRows : AllIdle /\ UpdateTransfer(id, row, "none")
  \/ \E id \in TrIds : AllIdle /\ DeleteTransfer(id, "none")
  \/ \E c \in Clients, g \in GoalIds, a \in AccountIds, amt \in Amounts :
       Solo(c) /\ SeqRows < MaxSeqRows /\ StartAdd(c, g, a, amt)
  \/ \E c \in Clients, id \in ContribIds : Solo(c) /\ StartRemove(c, id)
  \/ \E c \in Clients : AddStep(c, TRUE)
  \/ \E c \in Clients : RemoveStep(c, TRUE)
  \/ \E c \in Clients : Finish(c)

SpecUsers == InitUsers /\ [][NextUsers]_vars

\* Goals created and edited in their dialogs, with contributions added and removed,
\* one operation at a time, no call failing, one contribution at a time; the
\* accounts are opened with MaxInitial
InitGoals ==
  /\ accounts = [a \in AccountIds |->
                   [user_id |-> auth_uid, type |-> "checking", initial_balance |-> MaxInitial,
                    current_balance |-> MaxInitial]]
  /\ transactions = EmptyTable
  /\ transfers = EmptyTable
  /\ goals = EmptyTable
  /\ contributions = EmptyTable
  /\ client = [c \in Clients |-> ClientIdle]
  /\ lastOp = "none"
  /\ faults = 0
  /\ event = NoEvent

NextGoals ==
  \/ \E id \in GoalIds, values \in GoalFormValues : AllIdle /\ GoalDialog_onSubmit(id, values)
  \/ \E id \in GoalIds, values \in EditGoalFormValues :
       AllIdle /\ EditGoalDialog_onSubmit(id, values)
  \/ \E c \in Clients, g \in GoalIds, a \in AccountIds, amt \in Amounts :
       Solo(c) /\ contributions = EmptyTable /\ StartAdd(c, g, a, amt)
  \/ \E c \in Clients, id \in ContribIds : Solo(c) /\ StartRemove(c, id)
  \/ \E c \in Clients : AddStep(c, TRUE)
  \/ \E c \in Clients : RemoveStep(c, TRUE)
  \/ \E c \in Clients : Finish(c)

SpecGoals == InitGoals /\ [][NextGoals]_vars

\* ------------------------------------------ transaction and contribution forms
\* The account a form can hold: none selected (the empty string) or a listed account
FormAccounts == {NoAccount} \cup AccountIds

TransactionFormValues == [account_id : FormAccounts, amount : FormAmounts]

ContributionFormData == [account_id : FormAccounts, amount : FormAmounts]

\* A transaction schema that accepts an amount of zero
transactionSchema_NonNegative(values) ==
  (IF values.amount >= 0 THEN {} ELSE {"amount"})
    \cup (IF values.account_id # NoAccount THEN {} ELSE {"account_id"})

\* transactionSchema (of both transaction dialogs): amount positive, account_id min(1)
transactionSchema(values) ==
  (IF values.amount > 0 THEN {} ELSE {"amount"})
    \cup (IF values.account_id # NoAccount THEN {} ELSE {"account_id"})

\* contributionSchema: amount min(0.01), account_id min(1)
contributionSchema(values) ==
  (IF values.amount > 0 THEN {} ELSE {"amount"})
    \cup (IF values.account_id # NoAccount THEN {} ELSE {"account_id"})

\* TransactionDialog of a type: handleSubmit(onSubmit) -> createTransaction.mutateAsync
TransactionDialog_onSubmit(id, type, values, failAt) ==
  IF transactionSchema(values) = {}
    THEN CreateTransaction(id, [account_id |-> values.account_id, type |-> type,
                                amount |-> values.amount], failAt)
    ELSE FormRejected(transactionSchema(values))

\* EditTransactionDialog on transaction id: handleSubmit(onSubmit) ->
\* updateTransaction.mutateAsync({id, ...values}); the type is not in the form
EditTransactionDialog_onSubmit(id, values, failAt) ==
  /\ id \in DOMAIN transactions
  /\ IF transactionSchema(values) = {}
       THEN UpdateTransaction(id, [account_id |-> values.account_id,
                                   type |-> transactions[id].type,
                                   amount |-> values.amount], failAt)
       ELSE FormRejected(transactionSchema(values))

\* ContributionDialog of a goal: handleSubmit(onSubmit) -> addContribution.mutateAsync
ContributionDialog_onSubmit(c, g, values) ==
  /\ client[c].pc = "idle"
  /\ g \in Visible(goals)
  /\ IF contributionSchema(values) = {}
       THEN StartAdd(c, g, values.account_id, values.amount)
       ELSE FormRejected(contributionSchema(values))

\* Records created and edited through their dialogs, one operation at a time, no
\* call failing, on a ledger that holds one record
NextForms ==
  \/ \E id \in TxIds, type \in TransactionTypes, values \in TransactionFormValues :
       AllIdle /\ SeqRows = 0 /\ TransactionDialog_onSubmit(id, type, values, "none")
  \/ \E id \in TxIds, values \in TransactionFormValues :
       AllIdle /\ EditTransactionDialog_onSubmit(id, values, "none")
  \/ \E id \in TrIds, values \in TransferFormValues :
       AllIdle /\ SeqRows = 0 /\ TransferDialog_onSubmit(id, values, "none")
  \/ \E id \in TrIds, values \in TransferFormValues :
       AllIdle /\ EditTransferDialog_onSubmit(id, values, "none")
  \/ \E c \in Clients, g \in GoalIds, values \in ContributionFormData :
       Solo(c) /\ SeqRows = 0 /\ ContributionDialog_onSubmit(c, g, values)
  \/ \E c \in Clients : AddStep(c, TRUE)
  \/ \E c \in Clients : Finish(c)

SpecForms == Init /\ [][NextForms]_vars

\* addContribution called with any goal id and account id on a database in which
\* each account and goal is missing, user U's or user V's; one operation at a
\* time, no call failing
InitRefs ==
  /\ \E ids \in SUBSET AccountIds :
       accounts \in [ids -> {[user_id |-> u, type |-> "checking", initial_balance |-> b, current_balance |-> b] :
                               u \in Users, b \in InitBalances}]
  /\ transactions = EmptyTable
  /\ transfers = EmptyTable
  /\ \E ids \in SUBSET GoalIds :
       goals \in [ids -> {[user_id |-> u, target_amount |-> t, current_amount |-> 0,
                           status |-> "active", is_completed |-> FALSE] :
                            u \in Users, t \in Targets}]
  /\ contributions = EmptyTable
  /\ client = [c \in Clients |-> ClientIdle]
  /\ lastOp = "none"
  /\ faults = 0
  /\ event = NoEvent

NextRefs ==
  \/ \E c \in Clients, g \in GoalIds, a \in AccountIds, amt \in Amounts :
       Solo(c) /\ addContribution_mutateAsync(c, g, a, amt)
  \/ \E c \in Clients : AddStep(c, TRUE)
  \/ \E c \in Clients : Finish(c)

SpecRefs == InitRefs /\ [][NextRefs]_vars

\* Accounts deleted from a ledger of transactions, transfers and contributions,
\* one operation at a time, no call failing
NextAcct ==
  \/ \E id \in TxIds, row \in TransactionRows :
       AllIdle /\ SeqRows < MaxSeqRows /\ CreateTransaction(id, row, "none")
  \/ \E id \in TrIds, row \in TransferRows :
       AllIdle /\ SeqRows < MaxSeqRows /\ CreateTransfer(id, row, "none")
  \/ \E c \in Clients, g \in GoalIds, a \in AccountIds, amt \in Amounts :
       Solo(c) /\ SeqRows < MaxSeqRows /\ StartAdd(c, g, a, amt)
  \/ \E c \in Clients : AddStep(c, TRUE)
  \/ \E c \in Clients : Finish(c)
  \/ \E a \in AccountIds : AllIdle /\ DeleteAccount(a)

SpecAcct == Init /\ [][NextAcct]_vars

\* Accounts created and edited in their dialogs, with transactions on them, one
\* transaction at a time
InitAccounts ==
  /\ accounts = EmptyTable
  /\ transactions = EmptyTable
  /\ transfers = EmptyTable
  /\ goals = EmptyTable
  /\ contributions = EmptyTable
  /\ client = [c \in Clients |-> ClientIdle]
  /\ lastOp = "none"
  /\ faults = 0
  /\ event = NoEvent

NextAccounts ==
  \/ \E id \in AccountIds, values \in AccountFormValues : AccountDialog_onSubmit(id, values)
  \/ \E id \in AccountIds, values \in EditAccountFormValues :
       EditAccountDialog_onSubmit(id, values)
  \/ \E id \in TxIds, row \in TransactionRows :
       transactions = EmptyTable /\ CreateTransaction(id, row, "none")
  \/ \E id \in TxIds : DeleteTransaction(id, "none")

SpecAccounts == InitAccounts /\ [][NextAccounts]_vars

\* The transaction hooks on a ledger whose goal may have received one contribution
\* before the first transaction, one operation and one transaction at a time, no
\* call failing
NextTxGoals ==
  \/ \E c \in Clients, g \in GoalIds, a \in AccountIds, amt \in Amounts :
       /\ Solo(c) /\ LedgerRows = 0 /\ lastOp = "none" /\ contributions = EmptyTable
       /\ StartAdd(c, g, a, amt)
  \/ \E c \in Clients : AddStep(c, TRUE)
  \/ \E c \in Clients : Finish(c)
  \/ \E id \in TxIds, row \in TransactionRows :
       AllIdle /\ transactions = EmptyTable /\ CreateTransaction(id, row, "none")
  \/ \E id \in TxIds, row \in TransactionRows : AllIdle /\ UpdateTransaction(id, row, "none")
  \/ \E id \in TxIds : AllIdle /\ DeleteTransaction(id, "none")

SpecTxGoals == Init /\ [][NextTxGoals]_vars

\* addContribution operations one at a time, no call failing, on accounts whose
\* balance a first transaction may have moved (below zero, for an expense)
NextAccept ==
  \/ \E id \in TxIds, row \in TransactionRows :
       AllIdle /\ SeqRows = 0 /\ CreateTransaction(id, row, "none")
  \/ \E c \in Clients, g \in GoalIds, a \in AccountIds, amt \in Amounts :
       Solo(c) /\ SeqRows < MaxSeqRows /\ StartAdd(c, g, a, amt)
  \/ \E c \in Clients : AddStep(c, TRUE)
  \/ \E c \in Clients : Finish(c)

SpecAccept == Init /\ [][NextAccept]_vars

\* Contributions added and removed, one operation and one contribution at a time,
\* any database call of theirs may fail
NextClamp ==
  \/ \E c \in Clients, g \in GoalIds, a \in AccountIds, amt \in Amounts :
       Solo(c) /\ contributions = EmptyTable /\ StartAdd(c, g, a, amt)
  \/ \E c \in Clients, id \in ContribIds : Solo(c) /\ StartRemove(c, id)
  \/ \E c \in Clients, ok \in BOOLEAN : AddStep(c, ok)
  \/ \E c \in Clients, ok \in BOOLEAN : RemoveStep(c, ok)
  \/ \E c \in Clients : Finish(c)

SpecClamp == Init /\ [][NextClamp]_vars

\* Transactions and transfers created and updated, no statement failing, on a
\* ledger that holds records of one kind at a time
NextUpd ==
  \/ \E id \in TxIds, row \in TransactionRows :
       transfers = EmptyTable /\ CreateTransaction(id, row, "none")
  \/ \E id \in TxIds, row \in TransactionRows : UpdateTransaction(id, row, "none")
  \/ \E id \in TrIds, row \in TransferRows :
       transactions = EmptyTable /\ CreateTransfer(id, row, "none")
  \/ \E id \in TrIds, row \in TransferRows : UpdateTransfer(id, row, "none")
  \/ \E id \in TxIds : DeleteTransaction(id, "none")
  \/ \E id \in TrIds : DeleteTransfer(id, "none")

SpecUpd == Init /\ [][NextUpd]_vars

\* addContribution mutations of several clients, their database calls interleaved,
\* no call failing
NextConc ==
  \/ \E c \in Clients, g \in GoalIds, a \in AccountIds, amt \in Amounts : StartAdd(c, g, a, amt)
  \/ \E c \in Clients : AddStep(c, TRUE)
  \/ \E c \in Clients : Finish(c)

SpecConc == Init /\ [][NextConc]_vars

\* ------------------------------------------------------------- ledger sums
RECURSIVE SumTransactions(_, _, _)
\* The sum of the signed amounts of the rows of txs, among ids, on account a
SumTransactions(txs, ids, a) ==
  IF ids = {} THEN 0
  ELSE LET i == CHOOSE i \in ids : TRUE
           signed == IF txs[i].account_id # a THEN 0
                     ELSE IF txs[i].type = "income" THEN txs[i].amount
                     ELSE 0 - txs[i].amount
       IN signed + SumTransactions(txs, ids \ {i}, a)

\* C1: every account's current_balance is its initial_balance plus its live
\* income amounts minus its live expense amounts, after any sequence of
\* create, update and delete of transactions.
C1_TransactionLedger ==
  \A a \in DOMAIN accounts :
    accounts[a].current_balance =
      accounts[a].initial_balance + SumTransactions(transactions, DOMAIN transactions, a)

\* An update has left a live expense on an account whose balance is below its
\* initial balance
C1_Witness ==
  /\ lastOp = "updateTransaction"
  /\ \E i \in DOMAIN transactions :
       /\ transactions[i].type = "expense"
       /\ accounts[transactions[i].account_id].current_balance
            < accounts[transactions[i].account_id].initial_balance

RECURSIVE SumTransfers(_, _, _)
\* The sum over the rows of trs, among ids, of + amount where a is the
\* destination and - amount where a is the source
SumTransfers(trs, ids, a) ==
  IF ids = {} THEN 0
  ELSE LET i == CHOOSE i \in ids : TRUE
           credit == IF trs[i].to_account_id = a THEN trs[i].amount ELSE 0
           debit  == IF trs[i].from_account_id = a THEN trs[i].amount ELSE 0
       IN credit - debit + SumTransfers(trs, ids \ {i}, a)

RECURSIVE SumBalances(_, _)
\* The sum of current_balance over the accounts ids
SumBalances(accts, ids) ==
  IF ids = {} THEN 0
  ELSE LET a == CHOOSE a \in ids : TRUE
       IN accts[a].current_balance + SumBalances(accts, ids \ {a})

TotalBalance == SumBalances(accounts, DOMAIN accounts)

\* C2: every account's current_balance is its initial_balance plus the live
\* transfers into it minus the live transfers out of it, after any sequence
\* of create, update and delete of transfers.
C2_TransferLedger ==
  \A a \in DOMAIN accounts :
    accounts[a].current_balance =
      accounts[a].initial_balance + SumTransfers(transfers, DOMAIN transfers, a)

\* An update has left a live transfer between two accounts: its source is below
\* and its destination above the initial balance
C2_Witness ==
  /\ lastOp = "updateTransfer"
  /\ \E i \in DOMAIN transfers :
       /\ accounts[transfers[i].from_account_id].current_balance
            < accounts[transfers[i].from_account_id].initial_balance
       /\ accounts[transfers[i].to_account_id].current_balance
            > accounts[transfers[i].to_account_id].initial_balance

\* C3: every create, update and delete of a transfer leaves the sum of
\* current_balance over all accounts unchanged.
C3_TransfersConserveMoney ==
  [][lastOp' \in {"createTransfer", "updateTransfer", "deleteTransfer"}
       => TotalBalance' = TotalBalance]_vars

\* A delete has removed the last transfer of a ledger whose accounts hold money
C3_Witness ==
  /\ lastOp = "deleteTransfer"
  /\ transfers = EmptyTable
  /\ TotalBalance > 0

RECURSIVE SumContributions(_, _, _)
\* The sum of the amounts of the rows of cs, among ids, drawn on account a
SumContributions(cs, ids, a) ==
  IF ids = {} THEN 0
  ELSE LET i == CHOOSE i \in ids : TRUE
       IN (IF cs[i].account_id = a THEN cs[i].amount ELSE 0)
            + SumContributions(cs, ids \ {i}, a)

\* The balance the live records of account a account for
LedgerBalance(a) ==
  accounts[a].initial_balance
    + SumTransactions(transactions, DOMAIN transactions, a)
    + SumTransfers(transfers, DOMAIN transfers, a)
    - SumContributions(contributions, DOMAIN contributions, a)

\* C4: with operations run one at a time to completion, every account's
\* current_balance is its initial_balance plus the effects of its live
\* transactions and transfers minus its live goal contributions.
C4_LedgerInvariant ==
  AllIdle => \A a \in DOMAIN accounts : accounts[a].current_balance = LedgerBalance(a)

\* C5: a transaction or transfer record is live exactly when its balance effect
\* is applied, in every state, and a statement that fails changes neither the
\* records nor any balance.
C5_StatementsAreAtomic ==
  /\ [](\A a \in DOMAIN accounts : accounts[a].current_balance = LedgerBalance(a))
  /\ [][lastOp' = "statementFailed" => UNCHANGED <<accounts, transactions, transfers>>]_vars

\* A statement has failed on a ledger that holds a record with its effect applied
C5_Witness ==
  /\ lastOp = "statementFailed"
  /\ LedgerRows > 0
  /\ \E a \in DOMAIN accounts : accounts[a].current_balance # accounts[a].initial_balance

\* The tables are as they were when client c started its operation
AsBefore(c) ==
  /\ contributions = client[c].pre.contributions
  /\ accounts = client[c].pre.accounts
  /\ goals = client[c].pre.goals

\* A database call of client c's finished operation failed
StepFailed(c) == client[c].result = "error" \/ faults > client[c].pre.faults

\* C6: an addContribution one of whose steps failed leaves the contribution
\* table, the account balances and the goal as they were before it.
C6_AddAllOrNothing ==
  \A c \in Clients :
    (client[c].pc = "done" /\ client[c].op = "add" /\ StepFailed(c)) => AsBefore(c)

\* C7: a removeContribution one of whose steps failed leaves the contribution
\* table, the account balances and the goal as they were before it.
C7_RemoveAllOrNothing ==
  \A c \in Clients :
    (client[c].pc = "done" /\ client[c].op = "remove" /\ StepFailed(c)) => AsBefore(c)

\* C8: once interleaved addContribution operations have finished, every
\* account's current_balance is its starting balance minus the amounts of all
\* accepted contributions, and is not negative (no two were accepted against
\* a balance that covers only one).
C8_ConcurrentAddsSerialize ==
  (\A c \in Clients : client[c].pc \in {"idle", "done"}) =>
    \A a \in DOMAIN accounts :
      /\ accounts[a].current_balance =
           accounts[a].initial_balance - SumContributions(contributions, DOMAIN contributions, a)
      /\ accounts[a].current_balance >= 0

\* C9: an addContribution whose amount exceeds the account's current_balance when
\* the balance is read ends with the insufficient-balance error (or the error of
\* the failed read) and changes no balance, goal or contribution record.
C9_InsufficientBalanceRejected ==
  [][\A c \in Clients :
       (/\ client[c].pc = "add_read_account"
        /\ client'[c].pc # "add_read_account"
        /\ client[c].amount > accounts[client[c].account_id].current_balance)
       => /\ client'[c].pc = "done"
          /\ client'[c].result \in {"insufficient", "error"}
          /\ faults' = faults => client'[c].result = "insufficient"
          /\ UNCHANGED <<accounts, goals, contributions>>]_vars

\* A request above a positive balance was rejected, a contribution being on record
C9_Witness ==
  \E c \in Clients :
    /\ client[c].pc = "done" /\ client[c].op = "add" /\ client[c].result = "insufficient"
    /\ client[c].accountData > 0
    /\ client[c].amount > client[c].accountData
    /\ contributions # EmptyTable
    /\ AsBefore(c)

\* C10: after a successful addContribution of amount a its record exists, the
\* account is lower by a, the goal higher by a, and the goal is completed
\* exactly when its new current_amount reaches target_amount.
C10_SuccessfulAdd ==
  \A c \in Clients :
    (client[c].pc = "done" /\ client[c].op = "add" /\ client[c].result = "ok") =>
      LET a == client[c].account_id
          g == client[c].goal_id
          amt == client[c].amount
          pre == client[c].pre
      IN /\ client[c].contrib_id \in DOMAIN contributions \ DOMAIN pre.contributions
         /\ contributions[client[c].contrib_id] = [goal_id |-> g, account_id |-> a, amount |-> amt]
         /\ accounts[a].current_balance = pre.accounts[a].current_balance - amt
         /\ goals[g].current_amount = pre.goals[g].current_amount + amt
         /\ IF goals[g].current_amount >= goals[g].target_amount
              THEN goals[g].status = "completed" /\ goals[g].is_completed
              ELSE goals[g].status = "active" /\ ~goals[g].is_completed

\* C11: after a successful removeContribution its record is gone, its linked
\* account (if any) is higher by its amount and no other balance has changed,
\* and the goal has status active with is_completed false, whatever its
\* current_amount.
C11_SuccessfulRemove ==
  \A c \in Clients :
    (client[c].pc = "done" /\ client[c].op = "remove" /\ client[c].result = "ok") =>
      LET pre == client[c].pre
          g == client[c].goal_id
      IN /\ client[c].contrib_id \notin DOMAIN contributions
         /\ \A a \in DOMAIN accounts :
              accounts[a].current_balance =
                pre.accounts[a].current_balance
                  + (IF a = client[c].account_id THEN client[c].amount ELSE 0)
         /\ goals[g].status = "active" /\ ~goals[g].is_completed

\* C12: submitting the create or the edit transfer dialog with from_account_id
\* equal to to_account_id is rejected: no transfer record is created or changed
\* and no account's current_balance changes.
C12_SameAccountTransferRejected ==
  [][\A id \in TrIds, values \in TransferFormValues, f \in FailPoints :
       (/\ values.from_account_id = values.to_account_id
        /\ \/ TransferDialog_onSubmit(id, values, f)
           \/ EditTransferDialog_onSubmit(id, values, f))
       => /\ "to_account_id" \in transferSchema(values)
          /\ lastOp' = FormErrors(transferSchema(values))
          /\ UNCHANGED <<transfers, accounts>>]_vars

\* A submission with equal accounts and a positive amount was rejected while a
\* transfer between two accounts is live
C12_Witness ==
  /\ lastOp = "validationError:to_account_id"
  /\ \E i \in DOMAIN transfers :
       accounts[transfers[i].to_account_id].current_balance
         > accounts[transfers[i].to_account_id].initial_balance

\* C13: applying a single event and immediately reversing it (create then delete
\* of a transaction, create then delete of a transfer, addContribution then
\* removeContribution of that contribution) returns every account to exactly the
\* current_balance it had before the event.
C13_ApplyThenReverse == event.reversed => accounts = event.accounts

\* A contribution has been added and removed again on an account that other
\* contributions had already drawn on
C13_Witness ==
  /\ event.reversed /\ event.kind = "contribution"
  /\ contributions # EmptyTable
  /\ \E a \in DOMAIN accounts : accounts[a].current_balance < accounts[a].initial_balance

\* Account A is account 1 and account B is account 2
BalancesAre(accts, a, b) == accts[1].current_balance = a /\ accts[2].current_balance = b

AtoB(amt) == [from_account_id |-> 1, to_account_id |-> 2, amount |-> amt]

\* C14: with account A at 500 and account B at 100, creating a transfer A to B
\* of 200 gives A = 300 and B = 300; editing that transfer's amount to 50 gives
\* A = 450 and B = 150; deleting the transfer gives A = 500 and B = 100.
C14_TransferScenario ==
  [][\A id \in TrIds :
       /\ (BalancesAre(accounts, 500, 100) /\ CreateTransfer(id, AtoB(200), "none"))
            => BalancesAre(accounts', 300, 300)
       /\ (/\ BalancesAre(accounts, 300, 300)
           /\ id \in DOMAIN transfers /\ transfers[id] = AtoB(200)
           /\ UpdateTransfer(id, AtoB(50), "none"))
            => BalancesAre(accounts', 450, 150)
       /\ (/\ BalancesAre(accounts, 450, 150)
           /\ id \in DOMAIN transfers /\ transfers[id] = AtoB(50)
           /\ DeleteTransfer(id, "none"))
            => BalancesAre(accounts', 500, 100)]_vars

\* The transfer of 200 has been edited to 50: A holds 450 and B holds 150
C14_Witness ==
  /\ lastOp = "updateTransfer"
  /\ \E id \in DOMAIN transfers : transfers[id] = AtoB(50)
  /\ accounts[1].initial_balance = 500 /\ accounts[2].initial_balance = 100
  /\ BalancesAre(accounts, 450, 150)

\* C15: no operation issued by user U changes the current_balance of an account
\* or the current_amount or status of a goal owned by a different user V.
C15_OtherUsersUntouched ==
  [][/\ \A a \in DOMAIN accounts :
          accounts[a].user_id # auth_uid =>
            accounts'[a].current_balance = accounts[a].current_balance
     /\ \A g \in DOMAIN goals :
          goals[g].user_id # auth_uid =>
            /\ goals'[g].current_amount = goals[g].current_amount
            /\ goals'[g].status = goals[g].status]_vars

\* C16: in every reachable state, after any sequence of createGoal, updateGoal,
\* addContribution and removeContribution, each goal's is_completed flag is true
\* exactly when its status is completed.
C16_CompletedFlagMatchesStatus ==
  \A g \in DOMAIN goals : goals[g].is_completed <=> goals[g].status = "completed"

\* A goal that holds a contribution below its target has been set to completed in
\* the edit dialog
C16_Witness ==
  /\ lastOp = "updateGoal"
  /\ \E g \in DOMAIN goals :
       /\ goals[g].status = "completed" /\ goals[g].is_completed
       /\ 0 < goals[g].current_amount /\ goals[g].current_amount < goals[g].target_amount

\* C17: addContribution on a goal whose status is paused, when the resulting
\* current_amount stays below target_amount, leaves the goal's status paused.
C17_PausedPreserved ==
  \A c \in Clients :
    (client[c].pc = "done" /\ client[c].op = "add" /\ client[c].result = "ok") =>
      LET g == client[c].goal_id
      IN (/\ client[c].pre.goals[g].status = "paused"
          /\ goals[g].current_amount < goals[g].target_amount)
           => goals[g].status = "paused"

\* The tables no rejected submission may touch
Records == <<transactions, transfers, contributions, accounts, goals>>

\* C18: a create or update of a transaction, transfer or goal contribution whose
\* amount is zero or negative is rejected before any mutation: no record is
\* created or changed, and no account balance or goal amount changes.
C18_NonPositiveAmountRejected ==
  [][\A amt \in {x \in FormAmounts : x <= 0} :
       /\ \A id \in TxIds, type \in TransactionTypes, a \in FormAccounts :
            LET values == [account_id |-> a, amount |-> amt]
            IN (\/ TransactionDialog_onSubmit(id, type, values, "none")
                \/ EditTransactionDialog_onSubmit(id, values, "none"))
                 => UNCHANGED <<Records, client>>
       /\ \A id \in TrIds, from \in AccountIds, to \in AccountIds :
            LET values == [from_account_id |-> from, to_account_id |-> to, amount |-> amt]
            IN (\/ TransferDialog_onSubmit(id, values, "none")
                \/ EditTransferDialog_onSubmit(id, values, "none"))
                 => UNCHANGED <<Records, client>>
       /\ \A c \in Clients, g \in GoalIds, a \in FormAccounts :
            ContributionDialog_onSubmit(c, g, [account_id |-> a, amount |-> amt])
              => UNCHANGED <<Records, client>>]_vars

\* A submission with a non-positive amount has been rejected on a ledger that
\* holds a record
C18_Witness ==
  /\ lastOp = "validationError:amount"
  /\ SeqRows > 0
  /\ \E a \in DOMAIN accounts : accounts[a].current_balance # accounts[a].initial_balance

\* C19: an addContribution that references a source account or a goal that does
\* not exist, or that is not visible to the caller, is rejected before any
\* mutation: no contribution record is inserted and no account balance changes.
C19_MissingReferenceRejected ==
  \A c \in Clients :
    (/\ client[c].op = "add"
     /\ \/ client[c].goal_id \notin Visible(client[c].pre.goals)
        \/ client[c].account_id \notin Visible(client[c].pre.accounts))
      => /\ contributions = client[c].pre.contributions
         /\ accounts = client[c].pre.accounts
         /\ client[c].pc = "done" => client[c].result # "ok"

\* No transaction, transfer or goal contribution references account a
Unreferenced(a) ==
  /\ CascadeTransactions(transactions, a) = {}
  /\ CascadeTransfers(transfers, a) = {}
  /\ ReferencingContributions(contributions, a) = {}

\* C20: deleting an account by its owner always succeeds and cascades: every
\* transaction, transfer and goal contribution that references the account is
\* removed, and each remaining account's current_balance then equals its
\* initial_balance plus the effects of its own remaining live records.
C20_DeleteAccountCascades ==
  [][\A a \in AccountIds :
       (AllIdle /\ a \in Visible(accounts) /\ DeleteAccount(a)) =>
         /\ lastOp' = "deleteAccount"
         /\ a \notin DOMAIN accounts'
         /\ Unreferenced(a)'
         /\ \A b \in DOMAIN accounts' : accounts'[b].current_balance = LedgerBalance(b)']_vars

\* C21: a newly created account has current_balance equal to its
\* initial_balance, and editing an account leaves both its initial_balance and
\* its current_balance unchanged.
C21_AccountDialogsKeepBalances ==
  [][lastOp' \in {"createAccount", "updateAccount"} =>
       \A a \in DOMAIN accounts' :
         IF a \in DOMAIN accounts
           THEN /\ accounts'[a].initial_balance = accounts[a].initial_balance
                /\ accounts'[a].current_balance = accounts[a].current_balance
           ELSE accounts'[a].current_balance = accounts'[a].initial_balance]_vars

\* An account whose balance a transaction has moved off its initial balance has
\* been edited
C21_Witness ==
  /\ lastOp = "updateAccount"
  /\ \E a \in DOMAIN accounts :
       /\ accounts[a].type # "checking"
       /\ accounts[a].initial_balance > 0
       /\ accounts[a].current_balance # accounts[a].initial_balance

\* The accounts table after the old row is deleted and the new one then created
DeleteThenCreateTransaction(old, new) ==
  update_account_balance_on_transaction(
    update_account_balance_on_transaction(accounts, "DELETE", old, old), "INSERT", new, new)

DeleteThenCreateTransfer(old, new) ==
  ApplyTransfer(ReverseTransfer(accounts, old), new)

\* C22: updating a transaction or a transfer has exactly the same effect on
\* every account's current_balance as deleting the old record and then
\* creating the new one, for every combination of changed fields.
C22_UpdateIsDeleteThenCreate ==
  [][/\ lastOp' = "updateTransaction" =>
          \E id \in DOMAIN transactions :
            /\ \A j \in DOMAIN transactions \ {id} : transactions'[j] = transactions[j]
            /\ accounts' = DeleteThenCreateTransaction(transactions[id], transactions'[id])
     /\ lastOp' = "updateTransfer" =>
          \E id \in DOMAIN transfers :
            /\ \A j \in DOMAIN transfers \ {id} : transfers'[j] = transfers[j]
            /\ accounts' = DeleteThenCreateTransfer(transfers[id], transfers'[id])]_vars

\* A transfer has been updated to run from the second account to the first
C22_Witness ==
  /\ lastOp = "updateTransfer"
  /\ \E i \in DOMAIN transfers :
       /\ transfers[i].from_account_id > transfers[i].to_account_id
       /\ accounts[transfers[i].to_account_id].current_balance
            = accounts[transfers[i].to_account_id].initial_balance + transfers[i].amount

\* The accounts whose current_balance a step changes
ChangedAccounts ==
  {a \in DOMAIN accounts : accounts'[a].current_balance # accounts[a].current_balance}

\* C23: creating or deleting a transaction changes the current_balance of exactly
\* one account, the one the transaction references; updating a transaction changes
\* at most two, the old and the new account; every other account and every goal's
\* current_amount and status stay as they were.
C23_TransactionTouchesItsAccounts ==
  [][/\ lastOp' = "createTransaction" =>
          \E id \in DOMAIN transactions' \ DOMAIN transactions :
            ChangedAccounts = {transactions'[id].account_id}
     /\ lastOp' = "deleteTransaction" =>
          \E id \in DOMAIN transactions \ DOMAIN transactions' :
            ChangedAccounts = {transactions[id].account_id}
     /\ lastOp' = "updateTransaction" =>
          \E id \in DOMAIN transactions :
            /\ \A j \in DOMAIN transactions \ {id} : transactions'[j] = transactions[j]
            /\ ChangedAccounts \subseteq {transactions[id].account_id, transactions'[id].account_id}
     /\ lastOp' \in {"createTransaction", "deleteTransaction", "updateTransaction"} =>
          \A g \in DOMAIN goals :
            /\ g \in DOMAIN goals'
            /\ goals'[g].current_amount = goals[g].current_amount
            /\ goals'[g].status = goals[g].status]_vars

\* A transaction on the second account has been updated while the goal holds a
\* contribution drawn from the first
C23_Witness ==
  /\ lastOp = "updateTransaction"
  /\ \E i \in DOMAIN transactions : transactions[i].account_id = 2
  /\ \E k \in DOMAIN contributions :
       /\ contributions[k].account_id = 1
       /\ goals[contributions[k].goal_id].current_amount > 0
  /\ accounts[1].current_balance < accounts[1].initial_balance
  /\ accounts[2].current_balance # accounts[2].initial_balance

\* C24: an addContribution passes the balance check exactly when its amount is at
\* most the source account's current_balance at the time of the check (an amount
\* equal to the balance passes and leaves 0); run one at a time, the deduction of
\* an accepted addContribution never leaves the balance negative.
C24_AcceptedWithinBalance ==
  [][\A c \in Clients :
       LET a == client[c].account_id
       IN /\ (client[c].pc = "add_read_account" /\ client'[c].pc # "add_read_account") =>
               /\ client'[c].pc = "add_insert"
                    <=> client[c].amount <= accounts[a].current_balance
               /\ client'[c].pc # "add_insert" => client'[c].result = "insufficient"
          /\ (client[c].pc = "add_deduct" /\ client'[c].pc # "add_deduct") =>
               /\ accounts'[a].current_balance = accounts[a].current_balance - client[c].amount
               /\ accounts'[a].current_balance >= 0]_vars

\* An addContribution of the whole balance of an account has succeeded and left 0
C24_Witness ==
  \E c \in Clients :
    /\ client[c].pc = "done" /\ client[c].op = "add" /\ client[c].result = "ok"
    /\ client[c].accountData = client[c].amount
    /\ accounts[client[c].account_id].current_balance = 0
    /\ accounts[client[c].account_id].initial_balance > 0

\* C25: no goal's current_amount is ever negative: the goal update of
\* removeContribution writes max(0, current_amount - amount).
C25_GoalAmountNotNegative ==
  [][/\ \A g \in DOMAIN goals' : goals'[g].current_amount >= 0
     /\ \A c \in Clients :
          (client[c].pc = "rm_update_goal" /\ client'[c].pc = "done" /\ faults' = faults) =>
            goals'[client[c].goal_id].current_amount
              = Max(0, goals[client[c].goal_id].current_amount - client[c].amount)]_vars

\* A contribution larger than what the goal held has been removed: the goal is at 0
C25_Witness ==
  \E c \in Clients :
    /\ client[c].pc = "done" /\ client[c].op = "remove" /\ client[c].result = "ok"
    /\ client[c].goalData.current_amount < client[c].amount
    /\ goals[client[c].goal_id].current_amount = 0
    /\ client[c].contrib_id \notin DOMAIN contributions

\* C26: an addContribution or removeContribution reports success only when its
\* final goal update did write the goal's current_amount and status; a failure of
\* that update is reported as a failure of the operation.
C26_SuccessMeansGoalUpdated ==
  [][\A c \in Clients :
       (client[c].pc \in {"add_update_goal", "rm_update_goal"} /\ client'[c].pc = "done") =>
         LET g == client[c].goal_id
             written == IF client[c].op = "add"
                          THEN GoalAfterContribution(client[c].goalData, client[c].amount)
                          ELSE GoalAfterRemoval(client[c].goalData, client[c].amount)
         IN /\ faults' # faults => client'[c].result # "ok"
            /\ client'[c].result = "ok" =>
                 /\ goals'[g].current_amount = written.current_amount
                 /\ goals'[g].status = written.status]_vars

\* The sum of the amounts of the contribution records S of cs that belong to goal g
RECURSIVE SumGoalContributions(_, _, _)
SumGoalContributions(cs, S, g) ==
  IF S = {} THEN 0
  ELSE LET i == CHOOSE j \in S : TRUE
       IN (IF cs[i].goal_id = g THEN cs[i].amount ELSE 0)
            + SumGoalContributions(cs, S \ {i}, g)

\* C27: once addContribution and removeContribution operations have run to
\* completion without failure, in sequence or as two interleaved addContribution
\* operations on one goal from different accounts, every goal's current_amount is
\* the sum of the amounts of its live contribution records.
C27_GoalAmountIsSumOfContributions ==
  (/\ faults = 0
   /\ \A c \in Clients : client[c].pc \in {"idle", "done"}
   /\ \A i, j \in DOMAIN contributions :
        i # j => contributions[i].account_id # contributions[j].account_id) =>
    \A g \in DOMAIN goals :
      goals[g].current_amount = SumGoalContributions(contributions, DOMAIN contributions, g)

\* Every balance is what the live records account for
OnLedger == \A a \in DOMAIN accounts : accounts[a].current_balance = LedgerBalance(a)

\* One contribution operation at a time, started on balances that are on the
\* ledger and on a goal with at most one contribution, no call failing; while one
\* is in flight another session creates a transaction or a transfer, and then
\* updates or deletes it
NextMix ==
  \/ \E c \in Clients, g \in GoalIds, a \in AccountIds, amt \in Amounts :
       Solo(c) /\ OnLedger /\ contributions = EmptyTable /\ StartAdd(c, g, a, amt)
  \/ \E c \in Clients, id \in ContribIds : Solo(c) /\ OnLedger /\ StartRemove(c, id)
  \/ \E c \in Clients : AddStep(c, TRUE)
  \/ \E c \in Clients : RemoveStep(c, TRUE)
  \/ \E c \in Clients : Finish(c)
  \/ \E id \in TxIds, row \in TransactionRows :
       ~AllIdle /\ lastOp = "none" /\ CreateTransaction(id, row, "none")
  \/ \E id \in TxIds, row \in TransactionRows :
       ~AllIdle /\ lastOp = "createTransaction" /\ UpdateTransaction(id, row, "none")
  \/ \E id \in TxIds :
       ~AllIdle /\ lastOp = "createTransaction" /\ DeleteTransaction(id, "none")
  \/ \E id \in TrIds, row \in TransferRows :
       ~AllIdle /\ lastOp = "none" /\ CreateTransfer(id, row, "none")
  \/ \E id \in TrIds, row \in TransferRows :
       ~AllIdle /\ lastOp = "createTransfer" /\ UpdateTransfer(id, row, "none")
  \/ \E id \in TrIds :
       ~AllIdle /\ lastOp = "createTransfer" /\ DeleteTransfer(id, "none")

SpecMix == Init /\ [][NextMix]_vars

\* Contributions added and removed one at a time, no call failing; a second
\* session may once more remove the contribution a removal has just deleted
NextStale ==
  \/ \E c \in Clients, g \in GoalIds, a \in AccountIds, amt \in Amounts :
       Solo(c) /\ OnLedger /\ StartAdd(c, g, a, amt)
  \/ \E c \in Clients, id \in ContribIds : Solo(c) /\ OnLedger /\ StartRemove(c, id)
  \/ \E c, d \in Clients : OnLedger /\ StartRemoveListed(c, d)
  \/ \E c \in Clients : AddStep(c, TRUE)
  \/ \E c \in Clients : RemoveStep(c, TRUE)
  \/ \E c \in Clients : Finish(c)

SpecStale == Init /\ [][NextStale]_vars

\* Goals deleted after the contributions made to them, one operation at a time,
\* no call failing
NextDelGoal ==
  \/ \E c \in Clients, g \in GoalIds, a \in AccountIds, amt \in Amounts :
       Solo(c) /\ lastOp = "none" /\ StartAdd(c, g, a, amt)
  \/ \E c \in Clients : AddStep(c, TRUE)
  \/ \E c \in Clients : Finish(c)
  \/ \E g \in GoalIds : AllIdle /\ DeleteGoal(g)

SpecDelGoal == Init /\ [][NextDelGoal]_vars

\* C28: when an addContribution or removeContribution on an account has run
\* interleaved with creates, updates and deletes of transactions and transfers,
\* the account's current_balance reflects both: it is what its live transactions,
\* transfers and contributions account for.
C28_ContributionKeepsTriggerChange ==
  \A c \in Clients :
    (client[c].pc = "done" /\ client[c].result = "ok" /\ client[c].account_id # NoAccount) =>
      accounts[client[c].account_id].current_balance = LedgerBalance(client[c].account_id)

\* C29: a removeContribution invoked for a contribution whose record has already
\* been deleted has no further effect: no account is credited and no goal's
\* current_amount is reduced a second time.
C29_SecondRemoveHasNoEffect ==
  \A c \in Clients :
    (/\ client[c].pc = "done" /\ client[c].op = "remove"
     /\ client[c].contrib_id \notin DOMAIN client[c].pre.contributions) =>
      /\ \A a \in DOMAIN accounts :
           accounts[a].current_balance = client[c].pre.accounts[a].current_balance
      /\ \A g \in DOMAIN goals :
           goals[g].current_amount = client[c].pre.goals[g].current_amount

\* C30: deleting a goal removes the goal and all of its contribution records,
\* keeps the records of other goals, and changes no account's current_balance:
\* the amounts contributed are not credited back.
C30_DeleteGoalKeepsBalances ==
  [][lastOp' = "deleteGoal" =>
       \E g \in DOMAIN goals :
         /\ DOMAIN goals' = DOMAIN goals \ {g}
         /\ DOMAIN contributions'
              = {i \in DOMAIN contributions : contributions[i].goal_id # g}
         /\ \A i \in DOMAIN contributions' : contributions'[i] = contributions[i]
         /\ \A a \in DOMAIN accounts :
              /\ a \in DOMAIN accounts'
              /\ accounts'[a].current_balance = accounts[a].current_balance]_vars

\* A goal that held a contribution has been deleted: the record is gone and the
\* account is still lower by what it contributed
C30_Witness ==
  /\ lastOp = "deleteGoal"
  /\ contributions = EmptyTable
  /\ \E a \in DOMAIN accounts : accounts[a].current_balance < accounts[a].initial_balance

====
